---- MODULE Spec2Model ----
(***************************************************************************)
(* State-machine model of src/main.py: the FastAPI handlers /seed,         *)
(* GET /products, POST /products and POST /orders over a document store.   *)
(*                                                                         *)
(* Every handler is cut at its store operations: one action performs one   *)
(* store call together with the local computation that follows it up to    *)
(* the next store call (or the response).  Requests are served by the      *)
(* workers in Procs, whose steps interleave freely.                        *)
(*                                                                         *)
(* Money is counted in thousandths of a currency unit (12.99 is 12990), so *)
(* that round(total, 2) is a real rounding step; the prices used never sum *)
(* to an exact half of a hundredth, where binary floats would decide.      *)
(*                                                                         *)
(* database.py is not part of the sources: db is a handle that is either   *)
(* present (truthy) or absent, create_document is a single insert and      *)
(* get_documents an equality filter; any store call may raise.             *)
(***************************************************************************)
EXTENDS Integers, Sequences, FiniteSets, TLC

\* Bounds of the exploration.
MaxCalls == 2      \* requests received in one behaviour
MaxItems == 2      \* items in one order request

\* The workers that serve requests concurrently.
Procs == {1, 2}

VARIABLES
    db,        \* whether the process-wide store handle is present (database.db)
    product,   \* the "product" collection, in insertion order
    order,     \* the "order" collection, in insertion order
    nextOid,   \* the next identifier the store assigns
    pc,        \* per worker: where its handler stands
    req,       \* per worker: the request being served
    loc,       \* per worker: the handler's local variables
    res,       \* per worker: the response of the last finished request
    ops,       \* per worker: the store operations of the current request
    after,     \* per worker: whether a /seed had already returned 200 when this request arrived
    seeded,    \* whether some /seed request has returned 200
    calls      \* requests received so far

vars == <<db, product, order, nextOid, pc, req, loc, res, ops, after, seeded, calls>>

----------------------------------------------------------------------------
\* Identifiers.  str(ObjectId) is 24 hexadecimal characters; ObjectId(s)
\* accepts exactly such strings and raises InvalidId on anything else.

Hex == <<"0", "1", "2", "3", "4", "5", "6", "7", "8", "9", "a", "b", "c", "d", "e", "f">>

OidStr(n) == "0000000000000000000000" \o Hex[(n \div 16) + 1] \o Hex[(n % 16) + 1]

OidSpace == 0..(4 * (MaxCalls + 1))

OidTable == [n \in OidSpace |-> OidStr(n)]

ValidObjectId(s) == \E n \in OidSpace : OidTable[n] = s

ObjectId(s) == CHOOSE n \in OidSpace : OidTable[n] = s

InvalidIdMessage(s) ==
    "'" \o s \o "' is not a valid ObjectId, it must be a 12-byte input or a 24-character hex string"

----------------------------------------------------------------------------
\* Documents.

sample == <<
    [title |-> "Corrugated Boxes - Small",
     description |-> "Durable small corrugated boxes for light shipments.",
     price |-> 12990, category |-> "Boxes",
     image |-> "https://images.unsplash.com/photo-1585166276991-9a6f4018f3a0",
     in_stock |-> TRUE],
    [title |-> "Bubble Wrap Roll",
     description |-> "High-quality bubble wrap for fragile items.",
     price |-> 19500, category |-> "Protective",
     image |-> "https://images.unsplash.com/photo-1585386959984-a4155223168f",
     in_stock |-> TRUE],
    [title |-> "Packing Tape - Heavy Duty",
     description |-> "Strong adhesive packing tape for secure sealing.",
     price |-> 4750, category |-> "Tape",
     image |-> "https://images.unsplash.com/photo-1516637090014-cb1ab0d08fc7",
     in_stock |-> TRUE] >>

\* Payloads a client posts to /products (none equals a sample).
Payloads == {
    [title |-> "Poly Mailer", description |-> "Tear-proof mailer.",
     price |-> 128, category |-> "boxes",
     image |-> "https://example.com/mailer.png", in_stock |-> FALSE] }

ProductFields == {"title", "description", "price", "category", "image", "in_stock"}

\* Identifier strings a client puts in an order item: the first two identifiers
\* the store assigns (which may or may not exist yet) and a malformed one.
BadId == "zz"
Items == {
    [product_id |-> OidStr(1), quantity |-> 2],
    [product_id |-> OidStr(2), quantity |-> 1],
    [product_id |-> BadId, quantity |-> 1] }

RECURSIVE SeqsUpTo(_, _)
SeqsUpTo(S, n) ==
    IF n = 0 THEN {<<>>}
    ELSE LET shorter == SeqsUpTo(S, n - 1)
         IN  shorter \cup {Append(s, x) : s \in {t \in shorter : Len(t) = n - 1}, x \in S}

\* Optional[str]: <<>> is None, <<s>> is the string s.
Categories == {<<>>, <<"">>, <<"Boxes">>}

Requests ==
    {[op |-> "seed"]}
    \cup {[op |-> "list_products", category |-> c] : c \in Categories}
    \cup {[op |-> "create_product", product |-> d] : d \in Payloads}
    \cup {[op |-> "create_order", items |-> s] : s \in SeqsUpTo(Items, MaxItems)}

NoRequest == [op |-> "none"]
NoResponse == [status |-> 0]
NoLocals == [i |-> 0, total |-> 0]

\* One store operation of a request: what it was, on what, and how it ended.
Ev(op, id, n, ok) == [op |-> op, id |-> id, n |-> n, ok |-> ok]

----------------------------------------------------------------------------
\* Pure helpers of the handlers.

\* serialize_doc without the renaming: the stored document goes out as it is.
serialize_doc_raw(doc) == doc

\* serialize_doc: the empty document is returned as is; otherwise "_id" is
\* removed and its string form is stored under "id".
serialize_doc(doc) ==
    IF DOMAIN doc = {} THEN doc
    ELSE IF "_id" \in DOMAIN doc
         THEN [k \in (DOMAIN doc \ {"_id"}) \cup {"id"} |->
                  IF k = "id" THEN OidStr(doc["_id"]) ELSE doc[k]]
         ELSE doc

\* The `if not prod` check left out: every lookup result is taken as a product.
FalsyNever(doc) == FALSE

\* `if not x` on a document: None and the empty document are both falsy.
None == <<>>

Falsy(doc) == DOMAIN doc = {}

\* The filter dropped: the query is always empty.
QueryForAll(category) == <<>>

\* `if category`: None and the empty string are both falsy (line 78).
QueryFor(category) ==
    IF category /= <<>> /\ category[1] /= "" THEN [category |-> category[1]] ELSE <<>>

\* The emptiness test replaced by "more than the samples".
AlreadySeededBeyondSample(count) == count > 3

\* `if count > 0: return` (line 40).
AlreadySeeded(count) == count > 0

\* The running total started at 0.01 instead of 0.
InitialLocalsNonZero == [i |-> 1, total |-> 10]

\* total = 0.0 and the loop's start (line 100).
InitialLocals == [i |-> 1, total |-> 0]

\* The items visited from the end of the list.
CurrentItemFromEnd(items, i) == items[Len(items) + 1 - i]

\* `for item in order.items`: the item of the current iteration (line 101).
CurrentItem(items, i) == items[i]

\* float(prod.get("price", 0)) * item.quantity (line 105).
LineAmount(prod, item) ==
    (IF "price" \in DOMAIN prod THEN prod["price"] ELSE 0) * item.quantity

\* Truncation to two decimal places instead of rounding.
Round2Truncating(m) == 10 * (m \div 10)

\* round(total, 2) on a non-negative amount in thousandths: to the nearest
\* hundredth, an exact half going to the even hundredth (line 107).
Round2(m) ==
    LET q == m \div 10
        r == m % 10
    IN  IF r < 5 THEN 10 * q
        ELSE IF r > 5 THEN 10 * (q + 1)
        ELSE IF q % 2 = 0 THEN 10 * q ELSE 10 * (q + 1)

HTTPException(status, detail) == [status |-> status, detail |-> detail]
Ok(body) == [status |-> 200, body |-> body]
StoreError == "store error"

----------------------------------------------------------------------------
\* The store (database.py): equality filters over a collection kept in
\* insertion order.

Matches(doc, query) == \A k \in DOMAIN query : k \in DOMAIN doc /\ doc[k] = query[k]

get_documents(coll, query) ==
    LET Test(d) == Matches(d, query) IN SelectSeq(coll, Test)

find_one(coll, query) ==
    LET found == get_documents(coll, query)
    IN  IF found = <<>> THEN None ELSE found[1]

\* create_document: one insert; the store assigns the identifier, whose string
\* form is returned.  Without a store handle the call raises.
Inserted(coll, data) == Append(coll, [_id |-> nextOid] @@ data)

create_document(p, name, data) ==
    /\ db
    /\ nextOid' = nextOid + 1
    /\ product' = IF name = "product" THEN Inserted(product, data) ELSE product
    /\ order' = IF name = "order" THEN Inserted(order, data) ELSE order
    /\ ops' = [ops EXCEPT ![p] = Append(@, Ev("insert_one", name, nextOid, TRUE))]

\* A store call that raises (the store fails, or there is no store handle):
\* nothing is written.
store_raises(p, op, id) ==
    /\ ops' = [ops EXCEPT ![p] = Append(@, Ev(op, id, 0, FALSE))]
    /\ UNCHANGED <<product, order, nextOid>>

----------------------------------------------------------------------------
\* Responses.

\* The handler returns or raises: the response goes out and the worker is free.
Return(p, response) ==
    /\ pc' = [pc EXCEPT ![p] = "done"]
    /\ res' = [res EXCEPT ![p] = response]
    /\ seeded' = (seeded \/ (req[p].op = "seed" /\ response.status = 200))

\* The items priced so far written as an order before the error goes out.
AbortKeepingPartial(p, response) ==
    /\ Return(p, response)
    /\ order' = Append(order, [_id |-> nextOid,
                               items |-> SubSeq(req[p].items, 1, loc[p].i - 1),
                               total_amount |-> loc[p].total])
    /\ nextOid' = nextOid + 1
    /\ product' = product

\* create_order raises inside its loop: nothing has been written (lines 104, 110-113).
Abort(p, response) ==
    /\ Return(p, response)
    /\ UNCHANGED <<product, order, nextOid>>

Goto(p, label) ==
    /\ pc' = [pc EXCEPT ![p] = label]
    /\ UNCHANGED <<res, seeded>>

\* The list a GET /products returns on the present catalog.
ListProducts(category) ==
    LET docs == get_documents(product, QueryFor(category))
    IN  [i \in 1..Len(docs) |-> serialize_doc(docs[i])]

----------------------------------------------------------------------------
\* The catalogs the service may find when it starts: nothing, or the samples
\* a previous /seed left.
WithIds(docs) == [i \in 1..Len(docs) |-> [_id |-> i] @@ docs[i]]

InitialCatalogs == {<<>>, WithIds(sample)}

Init ==
    /\ db \in BOOLEAN
    /\ product \in (IF db THEN InitialCatalogs ELSE {<<>>})
    /\ order = <<>>
    /\ nextOid = Len(product) + 1
    /\ pc = [p \in Procs |-> "idle"]
    /\ req = [p \in Procs |-> NoRequest]
    /\ loc = [p \in Procs |-> NoLocals]
    /\ res = [p \in Procs |-> NoResponse]
    /\ ops = [p \in Procs |-> <<>>]
    /\ after = [p \in Procs |-> FALSE]
    /\ seeded = FALSE
    /\ calls = 0

\* Where a handler's first store call is.
Entry(r) ==
    CASE r.op = "seed" -> "seed_count"
      [] r.op = "list_products" -> "list_products"
      [] r.op = "create_product" -> "create_product"
      [] r.op = "create_order" -> IF r.items = <<>> THEN "order_insert" ELSE "order_loop"

\* A request is received by the first free worker (the workers are
\* interchangeable: which thread of the pool runs a handler changes nothing).
Free(p) == pc[p] \in {"idle", "done"}

Receive(p) ==
    /\ Free(p)
    /\ \A q \in Procs : q < p => ~Free(q)
    /\ calls < MaxCalls
    /\ \E r \in Requests :
          /\ req' = [req EXCEPT ![p] = r]
          /\ pc' = [pc EXCEPT ![p] = Entry(r)]
    /\ loc' = [loc EXCEPT ![p] = InitialLocals]
    /\ res' = [res EXCEPT ![p] = NoResponse]
    /\ ops' = [ops EXCEPT ![p] = <<>>]
    /\ after' = [after EXCEPT ![p] = seeded]
    /\ calls' = calls + 1
    /\ UNCHANGED <<db, product, order, nextOid, seeded>>

\* seed_products, lines 39-41: count the products; return if there are any.
seed_count(p) ==
    /\ pc[p] = "seed_count"
    /\ \/ /\ db
          /\ store_raises(p, "count_documents", "product")
          /\ Return(p, HTTPException(500, StoreError))
          /\ loc' = loc
       \/ LET count == IF db THEN Len(product) ELSE 0
          IN  /\ ops' = [ops EXCEPT ![p] =
                            IF db THEN Append(@, Ev("count_documents", "product", count, TRUE)) ELSE @]
              /\ IF AlreadySeeded(count)
                 THEN Return(p, Ok([message |-> "Products already seeded", count |-> count]))
                 ELSE Goto(p, "seed_insert")
              /\ loc' = loc
              /\ UNCHANGED <<product, order, nextOid>>
    /\ UNCHANGED <<db, req, after, calls>>

\* seed_products, lines 68-70: insert the next sample; return after the last.
seed_insert(p) ==
    /\ pc[p] = "seed_insert"
    /\ \/ /\ store_raises(p, "insert_one", "product")
          /\ Return(p, HTTPException(500, StoreError))
          /\ loc' = loc
       \/ /\ create_document(p, "product", sample[loc[p].i])
          /\ loc' = [loc EXCEPT ![p].i = @ + 1]
          /\ IF loc[p].i = Len(sample)
             THEN Return(p, Ok([message |-> "Seeded sample products", count |-> Len(sample)]))
             ELSE Goto(p, "seed_insert")
    /\ UNCHANGED <<db, req, after, calls>>

\* list_products, lines 77-82.
list_products(p) ==
    /\ pc[p] = "list_products"
    /\ \/ /\ store_raises(p, "find", "product")
          /\ Return(p, HTTPException(500, StoreError))
       \/ /\ db
          /\ LET body == ListProducts(req[p].category)
             IN  /\ ops' = [ops EXCEPT ![p] = Append(@, Ev("find", "product", Len(body), TRUE))]
                 /\ Return(p, Ok(body))
          /\ UNCHANGED <<product, order, nextOid>>
    /\ UNCHANGED <<db, req, loc, after, calls>>

\* create_product, lines 86-90.
create_product(p) ==
    /\ pc[p] = "create_product"
    /\ \/ /\ store_raises(p, "insert_one", "product")
          /\ Return(p, HTTPException(500, StoreError))
       \/ /\ create_document(p, "product", req[p].product)
          /\ Return(p, Ok([id |-> OidStr(nextOid)]))
    /\ UNCHANGED <<db, req, loc, after, calls>>

\* create_order, lines 101-105: one iteration of the loop over the items.
order_loop(p) ==
    /\ pc[p] = "order_loop"
    /\ LET item == CurrentItem(req[p].items, loc[p].i)
           lookup == Ev("find_one", item.product_id, 0, TRUE)
           \* lines 103-105, once prod is known
           Use(prod) ==
               IF Falsy(prod)
               THEN /\ Abort(p, HTTPException(404, "Product not found: " \o item.product_id))
                    /\ loc' = loc
               ELSE /\ loc' = [loc EXCEPT ![p] =
                                  [i |-> @.i + 1, total |-> @.total + LineAmount(prod, item)]]
                    /\ Goto(p, IF loc[p].i = Len(req[p].items) THEN "order_insert" ELSE "order_loop")
                    /\ UNCHANGED <<product, order, nextOid>>
       IN  \/ /\ ~db
              /\ ops' = ops
              /\ Use(None)
           \/ /\ db
              /\ ~ValidObjectId(item.product_id)
              /\ ops' = ops
              /\ Abort(p, HTTPException(500, InvalidIdMessage(item.product_id)))
              /\ loc' = loc
           \/ /\ db
              /\ ValidObjectId(item.product_id)
              /\ ops' = [ops EXCEPT ![p] = Append(@, [lookup EXCEPT !.ok = FALSE])]
              /\ Abort(p, HTTPException(500, StoreError))
              /\ loc' = loc
           \/ /\ db
              /\ ValidObjectId(item.product_id)
              /\ LET prod == find_one(product, [_id |-> ObjectId(item.product_id)])
                 IN  /\ ops' = [ops EXCEPT ![p] =
                                   Append(@, [lookup EXCEPT !.n = IF Falsy(prod) THEN 0 ELSE 1])]
                     /\ Use(prod)
    /\ UNCHANGED <<db, req, after, calls>>

\* create_order, lines 106-109: the order is written with its total and returned.
order_insert(p) ==
    /\ pc[p] = "order_insert"
    /\ LET order_dict == [items |-> req[p].items, total_amount |-> Round2(loc[p].total)]
       IN  \/ /\ store_raises(p, "insert_one", "order")
              /\ Return(p, HTTPException(500, StoreError))
           \/ /\ create_document(p, "order", order_dict)
              /\ Return(p, Ok([id |-> OidStr(nextOid), total |-> order_dict.total_amount]))
    /\ UNCHANGED <<db, req, loc, after, calls>>

Next ==
    \E p \in Procs :
        \/ Receive(p)
        \/ seed_count(p)
        \/ seed_insert(p)
        \/ list_products(p)
        \/ create_product(p)
        \/ order_loop(p)
        \/ order_insert(p)

Spec == Init /\ [][Next]_vars

----------------------------------------------------------------------------
\* Vocabulary of the properties.

Range(f) == {f[i] : i \in DOMAIN f}

Finished(p, op) == pc[p] = "done" /\ req[p].op = op

Succeeded(p, op) == Finished(p, op) /\ res[p].status = 200

\* The product an identifier string refers to, when there is one.
Resolves(catalog, s) == ValidObjectId(s) /\ \E d \in Range(catalog) : d["_id"] = ObjectId(s)

CatalogPrice(catalog, s) == (CHOOSE d \in Range(catalog) : d["_id"] = ObjectId(s)).price

\* The exact sum of price x quantity over a list of items, each visited once.
RECURSIVE PricedSum(_, _)
PricedSum(catalog, items) ==
    IF items = <<>> THEN 0
    ELSE CatalogPrice(catalog, Head(items).product_id) * Head(items).quantity
         + PricedSum(catalog, Tail(items))

\* The amount with two decimal places nearest to m (an exact half: the even one).
ToCents(m) ==
    CHOOSE c \in {10 * (m \div 10), 10 * (m \div 10) + 10} :
        LET off == IF c > m THEN c - m ELSE m - c
        IN  off < 5 \/ (off = 5 /\ (c \div 10) % 2 = 0)

\* The order documents whose identifier has the string form s.
OrdersWithId(s) == {o \in Range(order) : OidStr(o["_id"]) = s}

----------------------------------------------------------------------------
\* C1: every successful create_order returns, and has persisted in exactly one
\* order document, the total that is the sum over all items of the request
\* (repeated products counted each time) of catalog price x quantity, rounded
\* to two decimal places.
C1_TotalIsRoundedSum ==
    \A p \in Procs :
        Succeeded(p, "create_order") =>
            LET expected == ToCents(PricedSum(product, req[p].items))
                mine == OrdersWithId(res[p].body.id)
            IN  /\ \A i \in DOMAIN req[p].items : Resolves(product, req[p].items[i].product_id)
                /\ res[p].body.total = expected
                /\ Cardinality(mine) = 1
                /\ \A o \in mine : o.total_amount = expected /\ o.items = req[p].items

\* 12.99 x 2 + 19.50 x 1 = 45.48
C1_Witness ==
    \E p \in Procs :
        /\ Succeeded(p, "create_order")
        /\ req[p].items = << [product_id |-> OidStr(1), quantity |-> 2],
                             [product_id |-> OidStr(2), quantity |-> 1] >>
        /\ res[p].body.total = 45480

\* A step of worker p while its create_order is looking products up.
LookupStep(p) == pc[p] = "order_loop" /\ <<pc[p], loc[p]>> /= <<pc'[p], loc'[p]>>

\* C2: a create_order that fails during a product lookup, at whatever position,
\* has written nothing: none of its steps, the failing one included, changes the
\* order collection or the product collection.
C2_NoWriteOnLookupFailure ==
    [][\A p \in Procs : LookupStep(p) => order' = order /\ product' = product]_vars

C2_Witness ==
    \E p \in Procs :
        /\ Finished(p, "create_order")
        /\ res[p].status \in {404, 500}
        /\ db
        /\ Len(ops[p]) = 2
        /\ ops[p][1] = Ev("find_one", req[p].items[1].product_id, 1, TRUE)
        /\ ops[p][2].op = "find_one"
        /\ order = <<>>

\* A step in which worker p's list_products returns its list.
ListStep(p) == pc[p] = "list_products" /\ pc'[p] = "done" /\ res'[p].status = 200

\* The returned list is exactly the given set of products, serialized.
ListIs(p, docs) ==
    /\ Range(res'[p].body) = {serialize_doc(d) : d \in docs}
    /\ Len(res'[p].body) = Cardinality(docs)
    /\ product' = product
    /\ order' = order

\* C3 as claimed: with a category argument, the empty string included, exactly
\* the products of that category are returned; without one, all products.
C3_FilterForEveryString ==
    [][\A p \in Procs :
          ListStep(p) =>
              LET c == req[p].category
              IN  ListIs(p, IF c = <<>> THEN Range(product)
                            ELSE {d \in Range(product) : d.category = c[1]})]_vars

\* C3, amended: with a non-empty category argument exactly the products whose
\* category equals it (case-sensitively) are returned; with no argument or the
\* empty string, all products are returned; no stored record changes.
C3_FilterForNonEmptyString ==
    [][\A p \in Procs :
          ListStep(p) =>
              LET c == req[p].category
              IN  ListIs(p, IF c = <<>> \/ c = <<"">> THEN Range(product)
                            ELSE {d \in Range(product) : d.category = c[1]})]_vars

C3_Witness ==
    \E p \in Procs :
        /\ Succeeded(p, "list_products")
        /\ req[p].category = <<"Boxes">>
        /\ Len(res[p].body) = 1
        /\ res[p].body[1].category = "Boxes"
        /\ \E d \in Range(product) : d.category = "boxes"

\* C4: a /seed received after a /seed has returned 200 inserts nothing: its one
\* step leaves both collections as they are, ends the request, and a 200
\* reports the number of products in the collection.
C4_SecondSeedInsertsNothing ==
    [][\A p \in Procs :
          (after[p] /\ pc[p] = "seed_count" /\ pc'[p] /= pc[p]) =>
              /\ product' = product
              /\ order' = order
              /\ pc'[p] = "done"
              /\ res'[p].status = 200 =>
                    res'[p].body = [message |-> "Products already seeded",
                                    count |-> Len(product)]]_vars

C4_Witness ==
    \E p \in Procs :
        /\ Succeeded(p, "seed")
        /\ after[p]
        /\ ops[p] = <<Ev("count_documents", "product", 3, TRUE)>>
        /\ res[p].body.count = 3
        /\ Len(product) = 3

\* C5 as claimed: a create_order fails with 500 only when a store call raised;
\* an item whose identifier resolves to no product, well-formed or not, gives
\* 404 with a message naming the identifier.
C5_UnresolvedIs404 ==
    \A p \in Procs :
        Finished(p, "create_order") =>
            /\ res[p].status = 500 => (ops[p] /= <<>> /\ ~ops[p][Len(ops[p])].ok)
            /\ res[p].status = 404 =>
                  \E i \in DOMAIN req[p].items :
                      res[p].detail = "Product not found: " \o req[p].items[i].product_id

\* C6: a create_order with no items looks no product up; its only store call
\* is the insert, and unless that raises the request succeeds with total 0 and
\* exactly one new order document, of total_amount 0 and no items.
C6_EmptyOrderIsPersisted ==
    \A p \in Procs :
        (req[p].op = "create_order" /\ req[p].items = <<>>) =>
            /\ \A j \in DOMAIN ops[p] : ops[p][j].op = "insert_one" /\ ops[p][j].id = "order"
            /\ pc[p] \in {"order_insert", "done"}
            /\ pc[p] = "order_insert" => (ops[p] = <<>> /\ loc[p].total = 0)
            /\ pc[p] = "done" =>
                  /\ Len(ops[p]) = 1
                  /\ res[p].status = IF ops[p][1].ok THEN 200 ELSE 500
                  /\ res[p].status = 200 =>
                        /\ res[p].body.total = 0
                        /\ Cardinality(OrdersWithId(res[p].body.id)) = 1
                        /\ \A o \in OrdersWithId(res[p].body.id) :
                              o.total_amount = 0 /\ o.items = <<>>

C6_Witness ==
    \E p \in Procs :
        /\ Succeeded(p, "create_order")
        /\ req[p].items = <<>>
        /\ Len(order) = 1
        /\ order[1].total_amount = 0

\* C7: after a successful create_product, list_products() and list_products of
\* the product's category each hold exactly one record whose "id" is the
\* returned identifier; it has the submitted fields, a well-formed identifier
\* string under "id", and no "_id".
C7_CreatedProductIsListed ==
    \A p \in Procs :
        Succeeded(p, "create_product") =>
            \A c \in {<<>>, <<req[p].product.category>>} :
                LET listed == ListProducts(c)
                    hits == {i \in DOMAIN listed :
                                "id" \in DOMAIN listed[i] /\ listed[i]["id"] = res[p].body.id}
                IN  /\ Cardinality(hits) = 1
                    /\ \A i \in hits :
                          /\ "_id" \notin DOMAIN listed[i]
                          /\ ValidObjectId(listed[i]["id"])
                          /\ \A f \in ProductFields : listed[i][f] = req[p].product[f]

C7_Witness ==
    \E p \in Procs :
        /\ Succeeded(p, "create_product")
        /\ Len(product) = 4
        /\ res[p].body.id = OidStr(4)

\* C8: the lookups of a create_order follow the request's items in order, and
\* none follows a lookup that did not find its product; a 404 comes right after
\* the first such lookup, names that item's identifier, and no insert follows.
C8_StopsAtFirstMissing ==
    \A p \in Procs :
        req[p].op = "create_order" =>
            LET n == Len(ops[p])
                items == req[p].items
            IN  /\ \A j \in 1..n :
                      ops[p][j].op = "find_one" =>
                          /\ j <= Len(items)
                          /\ ops[p][j].id = items[j].product_id
                          /\ j < n => (ops[p][j].ok /\ ops[p][j].n = 1)
                /\ (pc[p] = "done" /\ res[p].status = 404) =>
                      LET k == IF db THEN n ELSE 1
                      IN  /\ k \in 1..Len(items)
                          /\ res[p].detail = "Product not found: " \o items[k].product_id
                          /\ db => ops[p][k] = Ev("find_one", items[k].product_id, 0, TRUE)
                          /\ \A j \in 1..n : ops[p][j].op = "find_one"

C8_Witness ==
    \E p \in Procs :
        /\ Finished(p, "create_order")
        /\ res[p].status = 404
        /\ db
        /\ Len(req[p].items) = 2
        /\ Len(ops[p]) = 1
        /\ ~Resolves(product, req[p].items[2].product_id)
        /\ req[p].items[2].product_id /= req[p].items[1].product_id

\* C9 as claimed: the product collection never holds two copies of a sample.
C9_NoDuplicateSamples ==
    \A i, j \in DOMAIN product :
        (i < j /\ \E k \in DOMAIN sample : sample[k].title = product[i].title) =>
            product[i].title /= product[j].title

\* Every item of every persisted order refers to a product of the catalog, and
\* the order's total_amount is the rounded sum at the catalog's prices.
OrdersConsistent ==
    \A o \in Range(order) :
        /\ \A i \in DOMAIN o.items : Resolves(product, o.items[i].product_id)
        /\ o.total_amount = ToCents(PricedSum(product, o.items))

\* A collection keeps its documents and gains at most one.
Grows(old, new) ==
    /\ Len(new) \in {Len(old), Len(old) + 1}
    /\ SubSeq(new, 1, Len(old)) = old

\* C10: no step removes or changes a stored product or order; a step inserts at
\* most one document; and every persisted order stays consistent with the catalog.
C10_RecordsImmutable ==
    [][/\ Grows(product, product')
       /\ Grows(order, order')
       /\ Len(product') + Len(order') <= Len(product) + Len(order) + 1
       /\ (product' /= product \/ order' /= order) => OrdersConsistent']_vars

C10_Witness ==
    /\ Len(order) = 1
    /\ order[1].items /= <<>>
    /\ order[1]["_id"] < product[Len(product)]["_id"]

====
